---------------------------- MODULE Spec2Model ----------------------------
(***************************************************************************)
(* A model of the my_wasm kernel: the obstacle registry, the visibility    *)
(* processor and the collision detector of src/game_logic.c and the ground *)
(* rasterizer of src/ground_renderer.c (game_logic.c holds a copy of it).  *)
(*                                                                         *)
(* Numbers.  The C code computes in 32-bit floats.  The model computes in  *)
(* exact arithmetic:                                                       *)
(*   - a length of the obstacle world (a coordinate, a radius, a height,   *)
(*     a map dimension, a render distance) is an integer count of          *)
(*     1/Unit world units, so the literal 0.5f of the code is Unit/2;      *)
(*   - a camera heading is a direction (c, s, d) with c*c + s*s = d*d,     *)
(*     standing for cosf = c/d and sinf = s/d;                             *)
(*   - a world coordinate of the rasterizer is a numerator over the row's  *)
(*     denominator.                                                        *)
(* Float rounding, NaN and infinities are outside the model.               *)
(***************************************************************************)
EXTENDS Integers, Sequences, FiniteSets, TLC

VARIABLES
    obstacles,        \* static Obstacle obstacles[MAX_OBSTACLES]
    obstacle_count,   \* static int obstacle_count
    obstaclesOverrun, \* ghost: a store to obstacles[] fell outside the array
    last,             \* the exported function that returned last
    ret,              \* its return value (0 for a void function)
    batch,            \* add_obstacles_batch: [count, before] of the last call
    frame,            \* process_visible_obstacles: the scalar arguments
    processed,        \* processed[0 .. processed_count-1] as the last call left it
    processedOverrun, \* ghost: a store to processed[] fell outside the array
    collected,        \* ghost: processed[] as the last call's scan left it, unsorted
    output_buffer,    \* the 6-float records the last call stored to output_buffer
    null_buffer,      \* the last call was a scan given output_buffer == NULL
    query,            \* check_collision: the arguments of the last call
    hit,              \* ghost: the index i at which it returned 1, or -1
    scene,            \* the rasterizer's arguments
    ground_pixels,    \* the host's destination buffer, byte index -> byte
    written,          \* ghost: the byte indices the last render call stored to
    recomputed,       \* ghost: the rows the last render call computed (not copied)
    pixelsOverrun     \* ghost: a store to ground_pixels[] fell outside the buffer

vars == <<obstacles, obstacle_count, obstaclesOverrun, last, ret, batch, frame,
          processed, processedOverrun, collected, output_buffer, null_buffer,
          query, hit, scene,
          ground_pixels, written, recomputed, pixelsOverrun>>

registryVars == <<obstacles, obstacle_count, obstaclesOverrun>>
renderVars   == <<scene, ground_pixels, written, recomputed, pixelsOverrun>>

(***************************************************************************)
(* last, ret, batch, processed, collected, output_buffer, null_buffer,     *)
(* query and hit describe the call that returned last.  processed[] is scratch memory:   *)
(* processed_count is a local that starts at 0, and no call reads an entry *)
(* of processed[] or of output_buffer that it did not store itself.  So a  *)
(* call that is not a scan, or a scan that returns early, leaves these     *)
(* three empty: it stored no record.                                       *)
(***************************************************************************)
NoBatch == [count |-> 0, before |-> 0]

NoRecords ==
    /\ processed' = <<>>
    /\ collected' = <<>>
    /\ output_buffer' = <<>>
    /\ UNCHANGED <<frame, processedOverrun>>

NoScan ==
    /\ NoRecords
    /\ null_buffer' = FALSE

NoQuery ==
    [player_x |-> 0, player_y |-> 0, player_radius |-> 0, player_height |-> 0,
     new_x |-> 0, new_y |-> 0, map_width |-> 1, map_height |-> 1]

NoCollision ==
    /\ query' = NoQuery
    /\ hit' = -1

-----------------------------------------------------------------------------
(* Bounds of the model.                                                    *)

\* #define MAX_OBSTACLES 10000 (game_logic.c:181), scaled down so that the
\* registry fills up within a few calls.
MAX_OBSTACLES == 3

\* #define MAX_PROCESSED 20000 (game_logic.c:182), scaled down so that a scan
\* collects more images than processed[] holds.
MAX_PROCESSED == 4

\* Model units per world unit (the resolution of lengths).
Unit == 2

-----------------------------------------------------------------------------
(* C arithmetic.                                                           *)

Abs(a) == IF a < 0 THEN -a ELSE a

Min(a, b) == IF a < b THEN a ELSE b

Max(a, b) == IF a > b THEN a ELSE b

\* Integer division as C defines it: the quotient truncated toward zero.
TruncDiv(a, b) ==
    IF (a >= 0) = (b > 0) THEN Abs(a) \div Abs(b) ELSE -(Abs(a) \div Abs(b))

\* The % of C: a - b * (a / b), with the sign of a.
CRem(a, b) == a - b * TruncDiv(a, b)

\* ceilf(n / d) for d > 0.
CeilDiv(n, d) == -((-n) \div d)

\* (int)v of a float v = n/Unit: the fraction is dropped (toward zero).
FloatToInt(n) == TruncDiv(n, Unit)

\* (float)i of an int i, as a count of 1/Unit.
IntToFloat(i) == i * Unit

-----------------------------------------------------------------------------
(* The obstacle registry: init_obstacles, add_obstacles_batch,             *)
(* get_obstacle_count.                                                     *)

ZeroObstacle == [x |-> 0, y |-> 0, radius |-> 0, height |-> 0, id |-> 0, type |-> 0]

ObstacleSlots == 0 .. (MAX_OBSTACLES - 1)

\* Mutant of AddLoopGuard: the capacity test is missing.
AddLoopGuardNoCap(i, count, cnt) == i < count

\* for (int i = 0; i < count && obstacle_count < MAX_OBSTACLES; i++)
AddLoopGuard(i, count, cnt) == i < count /\ cnt < MAX_OBSTACLES

\* One record of the flat float array: data[idx] .. data[idx + 5].
ReadObstacle(data, idx) ==
    [x      |-> data[idx],
     y      |-> data[idx + 1],
     radius |-> data[idx + 2],
     height |-> data[idx + 3],
     id     |-> FloatToInt(data[idx + 4]),
     type   |-> FloatToInt(data[idx + 5])]

\* The loop of add_obstacles_batch from iteration i on; st = [obs, cnt, added, overrun].
RECURSIVE AddLoop(_, _, _, _)
AddLoop(st, i, data, count) ==
    IF ~AddLoopGuard(i, count, st.cnt) THEN st
    ELSE AddLoop([obs     |-> IF st.cnt \in ObstacleSlots
                              THEN [st.obs EXCEPT ![st.cnt] = ReadObstacle(data, i * 6)]
                              ELSE st.obs,
                  cnt     |-> st.cnt + 1,
                  added   |-> st.added + 1,
                  overrun |-> st.overrun \/ st.cnt \notin ObstacleSlots],
                 i + 1, data, count)

\* The records a host passes: (x, y, radius, height, id, type) as floats.
\* With Unit = 2: radius 1, height 1, id 1; radius 0, id 2.5 -> 2; negative
\* height, type 1.5 -> 1.
BatchRecords ==
    { <<4, 0, 2, 2, 2, 0>>,
      <<5, 6, 0, 2, 5, 2>>,
      <<11, 2, 3, -2, 6, 3>> }

\* The counts a host passes: negative, zero, and up to two records.
BatchCounts == -1 .. 2

RECURSIVE Flatten(_)
Flatten(recs) ==
    IF recs = <<>> THEN <<>> ELSE Head(recs) \o Flatten(Tail(recs))

\* float *data, zero-based.
FlatData(recs) ==
    LET f == Flatten(recs) IN [k \in 0 .. (Len(f) - 1) |-> f[k + 1]]

BatchInputs ==
    UNION { [1 .. n -> BatchRecords] : n \in { c \in BatchCounts : c >= 0 } }

init_obstacles ==
    /\ obstacle_count' = 0
    /\ obstacles' = [k \in ObstacleSlots |-> ZeroObstacle]
    /\ obstaclesOverrun' = obstaclesOverrun
    /\ last' = "init_obstacles"
    /\ ret' = 0
    /\ batch' = NoBatch
    /\ NoScan
    /\ NoCollision
    /\ UNCHANGED renderVars

\* count may be any int; data holds the count records it announces.
add_obstacles_batch ==
    \E recs \in BatchInputs, count \in BatchCounts :
        /\ count = Len(recs) \/ (count < 0 /\ recs = <<>>)
        /\ LET r == AddLoop([obs |-> obstacles, cnt |-> obstacle_count, added |-> 0,
                             overrun |-> obstaclesOverrun],
                            0, FlatData(recs), count)
           IN  /\ obstacles' = r.obs
               /\ obstacle_count' = r.cnt
               /\ obstaclesOverrun' = r.overrun
               /\ ret' = r.added
        /\ batch' = [count |-> count, before |-> obstacle_count]
        /\ last' = "add_obstacles_batch"
        /\ NoScan
        /\ NoCollision
        /\ UNCHANGED renderVars

get_obstacle_count ==
    /\ ret' = obstacle_count
    /\ last' = "get_obstacle_count"
    /\ batch' = NoBatch
    /\ NoScan
    /\ NoCollision
    /\ UNCHANGED <<registryVars, renderVars>>

-----------------------------------------------------------------------------
(* The visibility processor: process_visible_obstacles.                    *)
(*                                                                         *)
(* frame holds the scalar arguments: camera_x, camera_y, dir (the heading  *)
(* camera_angle, in [-pi, pi]), player_x, player_y, player_height, cull    *)
(* (the angle half_fov + 0.5f, in [0, pi], given by its cosine: neg says   *)
(* the cosine is negative, n/d is its square), max_render_distance,        *)
(* map_width and map_height (both > 0).  camera_z is never read.           *)

\* p / sqrt(q2) >= cos(cull), for q2 > 0.
CosAtLeast(p, q2, cull) ==
    IF cull.neg
    THEN p >= 0 \/ p * p * cull.d <= cull.n * q2
    ELSE p >= 0 /\ p * p * cull.d >= cull.n * q2

\* angle_diff = fabsf(atan2f(dy, dx) - camera_angle), folded at pi, is the
\* angle between (dx, dy) and the heading; atan2f(0, 0) is 0, the angle of
\* (1, 0).  angle_diff <= half_fov + 0.5f compares the cosines the other way
\* round, the cosine falling on [0, pi].
AngleInView(dx, dy, f) ==
    LET c == f.dir[1]
        s == f.dir[2]
        d == f.dir[3]
    IN  IF dx = 0 /\ dy = 0
        THEN CosAtLeast(c, d * d, f.cull)
        ELSE CosAtLeast(dx * c + dy * s, d * d * (dx * dx + dy * dy), f.cull)

\* One period is taken off or added when the delta passes half the map.
WrapDelta(delta, size) ==
    IF 2 * delta > size THEN delta - size
    ELSE IF 2 * delta < -size THEN delta + size
    ELSE delta

\* player_t * d: the player's wrapped delta projected on the heading.
PlayerT(f) ==
    WrapDelta(f.player_x - f.camera_x, f.map_width) * f.dir[1]
    + WrapDelta(f.player_y - f.camera_y, f.map_height) * f.dir[2]

\* (int)ceilf(search_radius / map_width), search_radius = max_render_distance * 1.2f
Tiles(f, size) == CeilDiv(12 * f.max_render_distance, 10 * size)

\* dx, dy, dist_sq and obstacle_t * d of the image (tx, ty) of obs.
Image(obs, tx, ty, f) ==
    LET dx == (obs.x + tx * f.map_width) - f.camera_x
        dy == (obs.y + ty * f.map_height) - f.camera_y
    IN  [dx |-> dx, dy |-> dy, dist_sq |-> dx * dx + dy * dy,
         t  |-> dx * f.dir[1] + dy * f.dir[2]]

\* dist_sq < max_render_distance * max_render_distance
InRange(im, f) == im.dist_sq < f.max_render_distance * f.max_render_distance

\* obstacle_t > 0.5f
PastNearClip(im, f) == 2 * im.t > Unit * f.dir[3]

\* Mutant of IsBetween: the height test is missing.
IsBetweenNoHeight(obs, im, f) ==
    IF PastNearClip(im, f) /\ im.t < PlayerT(f) THEN 1 ELSE 0

\* is_between_camera_and_player
IsBetween(obs, im, f) ==
    IF f.player_height < obs.height /\ PastNearClip(im, f) /\ im.t < PlayerT(f)
    THEN 1 ELSE 0

\* The entry stored in processed[processed_count].
Entry(obs, im, f) ==
    [obstacle_id |-> obs.id, dx |-> im.dx, dy |-> im.dy, dist_sq |-> im.dist_sq,
     is_between |-> IsBetween(obs, im, f), type |-> obs.type]

\* Mutant of ProcessedFull: the overflow guard is missing.
ProcessedFullNever(n) == FALSE

\* if (processed_count >= MAX_PROCESSED) goto sort_and_return;
ProcessedFull(n) == n >= MAX_PROCESSED

\* The body of the innermost loop for the image (tx, ty) of obstacle i.
\* st = [proc, overrun, full]: proc is processed[0 .. processed_count-1] as a
\* sequence, full says that goto sort_and_return was taken.
ScanImage(st, i, tx, ty, obs, f) ==
    LET im == Image(obs[i], tx, ty, f)
    IN  IF InRange(im, f) /\ AngleInView(im.dx, im.dy, f) /\ PastNearClip(im, f)
        THEN IF ProcessedFull(Len(st.proc))
             THEN [st EXCEPT !.full = TRUE]
             ELSE [proc    |-> Append(st.proc, Entry(obs[i], im, f)),
                   overrun |-> st.overrun \/ Len(st.proc) >= MAX_PROCESSED,
                   full    |-> FALSE]
        ELSE st

\* for (int ty = -tiles_y; ty <= tiles_y; ty++), left by the goto.
RECURSIVE ScanTy(_, _, _, _, _, _)
ScanTy(st, i, tx, ty, obs, f) ==
    IF st.full \/ ty > Tiles(f, f.map_height) THEN st
    ELSE ScanTy(ScanImage(st, i, tx, ty, obs, f), i, tx, ty + 1, obs, f)

\* for (int tx = -tiles_x; tx <= tiles_x; tx++), left by the goto.
RECURSIVE ScanTx(_, _, _, _, _)
ScanTx(st, i, tx, obs, f) ==
    IF st.full \/ tx > Tiles(f, f.map_width) THEN st
    ELSE ScanTx(ScanTy(st, i, tx, -Tiles(f, f.map_height), obs, f), i, tx + 1, obs, f)

\* for (int i = 0; i < obstacle_count; i++), left by the goto.
RECURSIVE ScanObstacles(_, _, _, _, _)
ScanObstacles(st, i, n, obs, f) ==
    IF st.full \/ i >= n THEN st
    ELSE ScanObstacles(ScanTx(st, i, -Tiles(f, f.map_width), obs, f), i + 1, n, obs, f)

Swap(p, j) == [p EXCEPT ![j] = p[j + 1], ![j + 1] = p[j]]

\* Mutant of OutOfOrder: equal distances are swapped too.
OutOfOrderOrEqual(a, b) == a.dist_sq <= b.dist_sq

\* if (processed[j].dist_sq < processed[j + 1].dist_sq) swap
OutOfOrder(a, b) == a.dist_sq < b.dist_sq

\* for (j = ...; j < processed_count - i - 1; j++), p one-based: p[j + 1] is processed[j].
RECURSIVE BubblePass(_, _, _)
BubblePass(p, j, i) ==
    IF j >= Len(p) - i - 1 THEN p
    ELSE BubblePass(IF OutOfOrder(p[j + 1], p[j + 2]) THEN Swap(p, j + 1) ELSE p,
                    j + 1, i)

\* for (i = ...; i < processed_count - 1; i++)
RECURSIVE BubbleSort(_, _)
BubbleSort(p, i) ==
    IF i >= Len(p) - 1 THEN p ELSE BubbleSort(BubblePass(p, 0, i), i + 1)

\* The six floats stored for processed[i].
OutputRecord(e) ==
    <<IntToFloat(e.obstacle_id), e.dx, e.dy, e.dist_sq,
      IntToFloat(e.is_between), IntToFloat(e.type)>>

\* has_buffer = FALSE is output_buffer == NULL.
process_visible_obstacles ==
    \E has_buffer \in BOOLEAN :
        /\ last' = "process_visible_obstacles"
        /\ null_buffer' = ~has_buffer
        /\ IF ~has_buffer \/ obstacle_count = 0
           THEN /\ ret' = 0
                /\ NoRecords
           ELSE LET st == ScanObstacles([proc |-> <<>>, overrun |-> processedOverrun,
                                          full |-> FALSE],
                                         0, obstacle_count, obstacles, frame)
                    sorted == BubbleSort(st.proc, 0)
                IN  /\ collected' = st.proc
                    /\ processed' = sorted
                    /\ processedOverrun' = st.overrun
                    /\ output_buffer' = [k \in 1 .. Len(sorted) |-> OutputRecord(sorted[k])]
                    /\ ret' = Len(sorted)
                    /\ frame' = frame
        /\ batch' = NoBatch
        /\ NoCollision
        /\ UNCHANGED <<registryVars, renderVars>>

-----------------------------------------------------------------------------
(* The collision detector: check_collision.  query holds its arguments;    *)
(* player_x and player_y are never read.                                   *)

\* Mutant of FlownOver: a player as high as the obstacle no longer passes.
FlownOverStrict(obs, q) == q.player_height > obs.height

\* if (player_height >= obs->height) continue;
FlownOver(obs, q) == q.player_height >= obs.height

\* dx * dx + dy * dy of the wrapped delta from the obstacle to (new_x, new_y).
WrappedDistSq(obs, q) ==
    LET dx == WrapDelta(q.new_x - obs.x, q.map_width)
        dy == WrapDelta(q.new_y - obs.y, q.map_height)
    IN  dx * dx + dy * dy

CombinedRadius(obs, q) == obs.radius + q.player_radius

\* Mutant of Overlaps: touching circles collide.
OverlapsOrTouches(obs, q) ==
    WrappedDistSq(obs, q) <= CombinedRadius(obs, q) * CombinedRadius(obs, q)

\* if (dist_sq < combined_radius * combined_radius) return 1;
Overlaps(obs, q) ==
    WrappedDistSq(obs, q) < CombinedRadius(obs, q) * CombinedRadius(obs, q)

\* for (int i = 0; i < obstacle_count; i++): the index at which the loop
\* returns 1, or -1 when it runs out.
RECURSIVE CollisionLoop(_, _, _, _)
CollisionLoop(i, n, obs, q) ==
    IF i >= n THEN -1
    ELSE IF FlownOver(obs[i], q) THEN CollisionLoop(i + 1, n, obs, q)
    ELSE IF Overlaps(obs[i], q) THEN i
    ELSE CollisionLoop(i + 1, n, obs, q)

\* The value check_collision returns for q on the registry as it is.
CollisionResult(q) ==
    IF CollisionLoop(0, obstacle_count, obstacles, q) >= 0 THEN 1 ELSE 0

\* The moves a host asks about: onto each obstacle and between two, with a
\* point player and players of radius 1 and 2, at heights 0 and 1, on a map
\* of 6 x 6 world units.
Queries ==
    { [player_x |-> 0, player_y |-> 0, player_radius |-> pr, player_height |-> ph,
       new_x |-> pos[1], new_y |-> pos[2], map_width |-> 12, map_height |-> 12] :
      pr \in {0, 2, 4}, ph \in {0, 2},
      pos \in { <<4, 0>>, <<5, 6>>, <<11, 2>>, <<8, 4>> } }

check_collision ==
    \E q \in Queries :
        /\ query' = q
        /\ hit' = CollisionLoop(0, obstacle_count, obstacles, q)
        /\ ret' = CollisionResult(q)
        /\ last' = "check_collision"
        /\ batch' = NoBatch
        /\ NoScan
        /\ UNCHANGED <<registryVars, renderVars>>

-----------------------------------------------------------------------------
(* The ground rasterizer: render_ground_quality, render_ground_performance *)
(* and fast_mod (ground_renderer.c; game_logic.c:27-173 is a copy).        *)
(*                                                                         *)
(* scene holds the arguments: ground_w, ground_h, map_w, map_h, camera_x,  *)
(* camera_y, sh_focal and tan_f are integers; dir = (c, s, d) stands for   *)
(* cos_a = c/d and sin_a = s/d; tilt counts 1/10000ths.  On row y, with    *)
(* i = y + 1, every world coordinate is a fraction over RowDen = i*d*w:    *)
(*   lX = camera_x + dist*cos_a - lat*sin_a,  dist = sh_focal/i,           *)
(*   dx = (rX - lX) * inv_ground_w = 2*lat*sin_a/w,  lat = dist*tan_f,     *)
(* so cur_x and cur_y are carried as numerators over RowDen.               *)

\* int fast_mod(int value, int modulus)
FastModNoFix(value, modulus) == CRem(value, modulus)

fast_mod(value, modulus) ==
    LET result == CRem(value, modulus)
    IN  IF result < 0 THEN result + modulus ELSE result

\* The denominator of the coordinates of row y.
RowDen(y, sc) == (y + 1) * sc.dir[3] * sc.ground_w

\* lX and lY as numerators over RowDen.
LeftX(y, sc) ==
    (sc.camera_x * (y + 1) * sc.dir[3] + sc.sh_focal * sc.dir[1]
     - sc.sh_focal * sc.tan_f * sc.dir[2]) * sc.ground_w

LeftY(y, sc) ==
    (sc.camera_y * (y + 1) * sc.dir[3] + sc.sh_focal * sc.dir[2]
     + sc.sh_focal * sc.tan_f * sc.dir[1]) * sc.ground_w

\* dx and dy as numerators over RowDen: (rX - lX) / ground_w, (rY - lY) / ground_w.
StepX(sc) == 2 * sc.sh_focal * sc.tan_f * sc.dir[2]

StepY(sc) == -2 * sc.sh_focal * sc.tan_f * sc.dir[1]

\* fast_mod((int)cur, modulus) for cur = num/den: the cast drops the fraction.
TexelIndex(num, den, modulus) == fast_mod(TruncDiv(num, den), modulus)

\* const uint8_t *map_data: map_w * map_h texels of four bytes.  Texel t holds
\* (10 + t, 100 + t, 200 + t) and an alpha that is not 255.
MapData(sc) ==
    [k \in 0 .. (sc.map_w * sc.map_h * 4 - 1) |->
        LET t == k \div 4
        IN  CASE k % 4 = 0 -> 10 + t
              [] k % 4 = 1 -> 100 + t
              [] k % 4 = 2 -> 200 + t
              [] OTHER     -> 40 + t]

\* (my * map_w + mx) * 4 for the sample at (curx, cury) of row y.
MapIndex(y, curx, cury, sc) ==
    (TexelIndex(cury, RowDen(y, sc), sc.map_h) * sc.map_w
     + TexelIndex(curx, RowDen(y, sc), sc.map_w)) * 4

\* The state of a call, st: the buffer pix, the bytes stored to by this call
\* (written), whether a store fell outside the buffer (overrun), the rows
\* computed by sampling (rows), and the locals y, x, block_x, cur_x, cur_y
\* and last_calculated_y.
\* ground_pixels[idx] = v
Store(st, idx, v) ==
    IF idx \in DOMAIN st.pix
    THEN [st EXCEPT !.pix[idx] = v, !.written = @ \cup {idx}]
    ELSE [st EXCEPT !.overrun = TRUE]

\* dst[0] = src[0]; dst[1] = src[1]; dst[2] = src[2]; dst[3] = 255;
StorePixel(st, target_index, map_index, sc) ==
    Store(Store(Store(Store(st, target_index, MapData(sc)[map_index]),
                      target_index + 1, MapData(sc)[map_index + 1]),
                target_index + 2, MapData(sc)[map_index + 2]),
          target_index + 3, 255)

\* for (int x = 0; x < ground_w; x++) of render_ground_quality.
RECURSIVE QualityColumns(_, _)
QualityColumns(st, sc) ==
    IF st.x >= sc.ground_w THEN st
    ELSE QualityColumns(
             [StorePixel(st, st.y * sc.ground_w * 4 + st.x * 4,
                         MapIndex(st.y, st.cur_x, st.cur_y, sc), sc)
              EXCEPT !.x = @ + 1, !.cur_x = @ + StepX(sc), !.cur_y = @ + StepY(sc)],
             sc)

\* for (int y = 0; y < ground_h; y++) of render_ground_quality.
RECURSIVE QualityRows(_, _)
QualityRows(st, sc) ==
    IF st.y >= sc.ground_h THEN st
    ELSE QualityRows(
             [QualityColumns([st EXCEPT !.rows = @ \cup {st.y}, !.x = 0,
                                        !.cur_x = LeftX(st.y, sc),
                                        !.cur_y = LeftY(st.y, sc)], sc)
              EXCEPT !.y = @ + 1],
             sc)

\* is_tilting = fabs(tilt) > 0.0001f; effective_rot = state_rot || is_tilting
EffectiveRot(sc) == sc.state_rot # 0 \/ Abs(sc.tilt) > 1

\* The step of row y: i <= t1 is the far band, i <= t2 the mid band, with
\* t1 = ground_h * 0.1f and t2 = ground_h * (0.1f + 0.5f); then the clamp.
\* (For ground_h up to 200 the float comparisons agree with the exact ones.)
RowStep(y, sc) ==
    LET i == y + 1
        lod == sc.dynamic_res # 0 /\ sc.layered_res # 0
        step == IF ~lod THEN sc.base_res
                ELSE IF 10 * i <= sc.ground_h
                     THEN (IF EffectiveRot(sc) THEN 5 ELSE 4)
                ELSE IF 10 * i <= 6 * sc.ground_h
                     THEN (IF EffectiveRot(sc) THEN 5
                           ELSE IF sc.state_move # 0 THEN 4 ELSE 2)
                ELSE (IF EffectiveRot(sc) THEN 8
                      ELSE IF sc.state_move # 0 THEN 6 ELSE 2)
    IN  IF step < 1 THEN 1 ELSE step

\* memcpy(&ground_pixels[y * ground_w * 4],
\*        &ground_pixels[last_calculated_y * ground_w * 4], ground_w * 4)
CopyRow(st, y, from, sc) ==
    LET n      == sc.ground_w * 4
        target == (y * n) .. (y * n + n - 1)
    IN  [st EXCEPT
            !.pix = [k \in DOMAIN st.pix |->
                        IF k \in target /\ (k - y * n + from * n) \in DOMAIN st.pix
                        THEN st.pix[k - y * n + from * n]
                        ELSE st.pix[k]],
            !.written = @ \cup (target \cap DOMAIN st.pix),
            !.overrun = @ \/ ~(target \subseteq DOMAIN st.pix)]

\* Mutant of BlockEnd: the block is not cut at the end of the row.
BlockEndUncut(x, step, sc) == x + step

\* end_x = (x + step > ground_w) ? ground_w : x + step
BlockEnd(x, step, sc) == IF x + step > sc.ground_w THEN sc.ground_w ELSE x + step

\* for (int block_x = x; block_x < end_x; block_x++)
RECURSIVE FillBlock(_, _, _, _)
FillBlock(st, end_x, map_index, sc) ==
    IF st.block_x >= end_x THEN st
    ELSE FillBlock([StorePixel(st, st.y * sc.ground_w * 4 + st.block_x * 4,
                               map_index, sc)
                    EXCEPT !.block_x = @ + 1],
                   end_x, map_index, sc)

\* Mutant of AdvanceBlock: the coordinate moves by one column per block.
AdvanceBlockOneColumn(cur, delta, step) == cur + delta

\* cur_x += dx * step; cur_y += dy * step;
AdvanceBlock(cur, delta, step) == cur + delta * step

\* for (int x = 0; x < ground_w; x += step) of render_ground_performance.
RECURSIVE PerformanceColumns(_, _, _)
PerformanceColumns(st, step, sc) ==
    IF st.x >= sc.ground_w THEN st
    ELSE PerformanceColumns(
             [FillBlock([st EXCEPT !.block_x = st.x], BlockEnd(st.x, step, sc),
                        MapIndex(st.y, st.cur_x, st.cur_y, sc), sc)
              EXCEPT !.x = @ + step, !.cur_x = AdvanceBlock(@, StepX(sc), step),
                     !.cur_y = AdvanceBlock(@, StepY(sc), step)],
             step, sc)

\* if (y > 0 && y % step != 0 && last_calculated_y >= 0)
SkipsRow(y, step, last_calculated_y) ==
    y > 0 /\ CRem(y, step) # 0 /\ last_calculated_y >= 0

\* Mutant of CopySource: every skipped row copies the first row.
CopySourceFirstRow(last_calculated_y) == 0

\* The row a skipped row is copied from.
CopySource(last_calculated_y) == last_calculated_y

\* for (int y = 0; y < ground_h; y++) of render_ground_performance.
RECURSIVE PerformanceRows(_, _)
PerformanceRows(st, sc) ==
    IF st.y >= sc.ground_h THEN st
    ELSE IF SkipsRow(st.y, RowStep(st.y, sc), st.last_calculated_y)
         THEN PerformanceRows(
                  [CopyRow(st, st.y, CopySource(st.last_calculated_y), sc)
                   EXCEPT !.y = @ + 1],
                  sc)
         ELSE PerformanceRows(
                  [PerformanceColumns(
                       [st EXCEPT !.rows = @ \cup {st.y}, !.last_calculated_y = st.y,
                                  !.x = 0, !.cur_x = LeftX(st.y, sc),
                                  !.cur_y = LeftY(st.y, sc)],
                       RowStep(st.y, sc), sc)
                   EXCEPT !.y = @ + 1],
                  sc)

\* A call as it starts: the buffer as the host passes it, the locals as declared.
CallStart ==
    [pix |-> ground_pixels, written |-> {}, overrun |-> pixelsOverrun, rows |-> {},
     y |-> 0, x |-> 0, block_x |-> 0, cur_x |-> 0, cur_y |-> 0,
     last_calculated_y |-> -1]

Rendered(st) ==
    /\ ground_pixels' = st.pix
    /\ written' = st.written
    /\ recomputed' = st.rows
    /\ pixelsOverrun' = st.overrun
    /\ ret' = 0
    /\ batch' = NoBatch
    /\ NoScan
    /\ NoCollision
    /\ UNCHANGED <<registryVars, scene>>

render_ground_quality ==
    /\ last' = "render_ground_quality"
    /\ Rendered(QualityRows(CallStart, scene))

render_ground_performance ==
    /\ last' = "render_ground_performance"
    /\ Rendered(PerformanceRows(CallStart, scene))

-----------------------------------------------------------------------------
(* The registry and the visibility processor: specification Spec.  The     *)
(* host keeps one camera, player and map through a behaviour (frame) and   *)
(* resets, fills and scans the registry in any order.                      *)

Headings == { <<1, 0, 1>>, <<3, 4, 5>> }

\* half_fov + 0.5f = pi/2 and pi/4.
Culls == { [neg |-> FALSE, n |-> 0, d |-> 1], [neg |-> FALSE, n |-> 1, d |-> 2] }

Cameras == { <<0, 0>>, <<3, 1>> }

\* A map of 6 x 6 world units seen to 5 units: one tile each way.  The
\* player is within half a map of the camera, or beyond it.
Frames ==
    { [camera_x |-> cam[1], camera_y |-> cam[2], dir |-> h, player_x |-> px,
       player_y |-> 0, player_height |-> ph, cull |-> c,
       max_render_distance |-> 10, map_width |-> 12, map_height |-> 12] :
      cam \in Cameras, h \in Headings, px \in {6, 10}, ph \in {0, 2}, c \in Culls }

NoFrame ==
    [camera_x |-> 0, camera_y |-> 0, dir |-> <<1, 0, 1>>, player_x |-> 0,
     player_y |-> 0, player_height |-> 0, cull |-> [neg |-> FALSE, n |-> 0, d |-> 1],
     max_render_distance |-> 0, map_width |-> 1, map_height |-> 1]

NoScene ==
    [ground_w |-> 0, ground_h |-> 0, map_w |-> 1, map_h |-> 1, camera_x |-> 0,
     camera_y |-> 0, dir |-> <<1, 0, 1>>, sh_focal |-> 0, tan_f |-> 0, base_res |-> 1,
     dynamic_res |-> 0, layered_res |-> 0, state_move |-> 0, state_rot |-> 0,
     tilt |-> 0]

\* The statics as the loader leaves them: zeroed arrays, obstacle_count = 0.
InitStatics ==
    /\ obstacles = [k \in ObstacleSlots |-> ZeroObstacle]
    /\ obstacle_count = 0
    /\ obstaclesOverrun = FALSE
    /\ processed = <<>>
    /\ processedOverrun = FALSE
    /\ collected = <<>>
    /\ output_buffer = <<>>
    /\ null_buffer = FALSE
    /\ last = "none"
    /\ ret = 0
    /\ batch = NoBatch

InitNoRender ==
    /\ scene = NoScene
    /\ ground_pixels = <<>>
    /\ written = {}
    /\ recomputed = {}
    /\ pixelsOverrun = FALSE

Init ==
    /\ InitStatics
    /\ InitNoRender
    /\ frame \in Frames
    /\ query = NoQuery
    /\ hit = -1

Next ==
    \/ init_obstacles
    \/ add_obstacles_batch
    \/ get_obstacle_count
    \/ process_visible_obstacles

Spec == Init /\ [][Next]_vars

\* The registry and the collision detector.
InitCollision ==
    /\ InitStatics
    /\ InitNoRender
    /\ frame = NoFrame
    /\ query = NoQuery
    /\ hit = -1

NextCollision ==
    \/ init_obstacles
    \/ add_obstacles_batch
    \/ check_collision

SpecCollision == InitCollision /\ [][NextCollision]_vars

\* The rasterizer.  The host keeps one scene and one destination buffer of
\* ground_w * ground_h * 4 bytes through a behaviour; -1 marks a byte that
\* no call has stored to yet.
GroundSizes == { <<3, 1>>, <<3, 4>>, <<3, 10>> }

MapSizes == { <<2, 3>>, <<4, 2>> }

RenderCameras == { <<-1, 0>>, <<0, 2>> }

RenderHeadings == { <<1, 0, 1>>, <<0, -1, 1>>, <<3, 4, 5>> }

\* base_res, dynamic_res, layered_res, state_move, state_rot, tilt: the fixed
\* step -1, 1, 2 or 3 without level of detail, and the level of detail idle,
\* moving, rotating, tilting, and with a tilt of exactly 0.0001.
RenderModes ==
    { <<b, 1, 0, 1, 1, 0>> : b \in {-1, 1, 2, 3} }
    \cup { <<1, 1, 1, 0, 0, 0>>, <<1, 1, 1, 1, 0, 0>>, <<1, 1, 1, 0, 1, 0>>,
           <<1, 1, 1, 0, 0, -2>>, <<1, 1, 1, 0, 0, 1>> }

Scenes ==
    { [ground_w |-> g[1], ground_h |-> g[2], map_w |-> m[1], map_h |-> m[2],
       camera_x |-> cam[1], camera_y |-> cam[2], dir |-> h, sh_focal |-> f,
       tan_f |-> 1, base_res |-> md[1], dynamic_res |-> md[2],
       layered_res |-> md[3], state_move |-> md[4], state_rot |-> md[5],
       tilt |-> md[6]] :
      g \in GroundSizes, m \in MapSizes, cam \in RenderCameras,
      h \in RenderHeadings, f \in {1, 6}, md \in RenderModes }

InitRender ==
    /\ InitStatics
    /\ frame = NoFrame
    /\ query = NoQuery
    /\ hit = -1
    /\ scene \in Scenes
    /\ ground_pixels = [k \in 0 .. (scene.ground_w * scene.ground_h * 4 - 1) |-> -1]
    /\ written = {}
    /\ recomputed = {}
    /\ pixelsOverrun = FALSE

NextRender ==
    \/ render_ground_quality
    \/ render_ground_performance

SpecRender == InitRender /\ [][NextRender]_vars

-----------------------------------------------------------------------------
(* Claims about the registry and the visibility processor, under Spec.     *)

\* C1: RegistryCount() stays in [0, MAX_OBSTACLES] and no insert stores past
\* obstacles[]; the count is 0 right after a reset; an insert of count
\* records returns min(max(count, 0), MAX_OBSTACLES - count before) and
\* raises the count by exactly what it returns.
C1_RegistryBounded ==
    /\ obstacle_count \in 0 .. MAX_OBSTACLES
    /\ ~obstaclesOverrun
    /\ last = "init_obstacles" => obstacle_count = 0
    /\ last = "get_obstacle_count" => ret = obstacle_count
    /\ last = "add_obstacles_batch" =>
           /\ ret = Min(Max(batch.count, 0), MAX_OBSTACLES - batch.before)
           /\ obstacle_count = batch.before + ret

\* C1 witness: an insert that asked for more than the room left and was cut.
C1_Witness_InsertCut ==
    /\ last = "add_obstacles_batch"
    /\ batch.before > 0
    /\ batch.count > MAX_OBSTACLES - batch.before
    /\ 0 < ret /\ ret < batch.count
    /\ obstacle_count = MAX_OBSTACLES

\* The tile images the scan visits: obstacle index, tx, ty.
ImageKeys ==
    { <<i, tx, ty>> : i \in 0 .. (obstacle_count - 1),
                      tx \in -Tiles(frame, frame.map_width) .. Tiles(frame, frame.map_width),
                      ty \in -Tiles(frame, frame.map_height) .. Tiles(frame, frame.map_height) }

KeyImage(k) == Image(obstacles[k[1]], k[2], k[3], frame)

\* The image passes the distance, angle and near-clip filters.
PassesFilters(k) ==
    /\ InRange(KeyImage(k), frame)
    /\ AngleInView(KeyImage(k).dx, KeyImage(k).dy, frame)
    /\ PastNearClip(KeyImage(k), frame)

AcceptedKeys == { k \in ImageKeys : PassesFilters(k) }

\* Scan order: obstacle index, then tx, then ty.
ScannedBefore(j, k) ==
    \/ j[1] < k[1]
    \/ j[1] = k[1] /\ j[2] < k[2]
    \/ j[1] = k[1] /\ j[2] = k[2] /\ j[3] < k[3]

\* The first MAX_PROCESSED accepted images in scan order.
FirstAcceptedKeys ==
    { k \in AcceptedKeys :
        Cardinality({ j \in AcceptedKeys : ScannedBefore(j, k) }) < MAX_PROCESSED }

KeyRecord(k) == OutputRecord(Entry(obstacles[k[1]], KeyImage(k), frame))

\* The last call was a scan that ran: a buffer was given, the registry is not empty.
ScanRan ==
    last = "process_visible_obstacles" /\ ~null_buffer /\ obstacle_count > 0

\* dist_sq never rises from one record to the next.
FarthestFirst(out) ==
    \A k \in 1 .. (Len(out) - 1) : out[k][4] >= out[k + 1][4]

\* C2: a scan returns at most MAX_PROCESSED records and stores to no entry
\* of processed[] at or past MAX_PROCESSED; the records it returns are, as a
\* multiset, those of the first MAX_PROCESSED accepted images in scan order
\* (all of them when there are fewer), farthest first.
C2_ScanCapped ==
    /\ ~processedOverrun
    /\ last = "process_visible_obstacles" =>
           /\ ret <= MAX_PROCESSED
           /\ Len(output_buffer) = ret
    /\ ScanRan =>
           /\ ret = Cardinality(FirstAcceptedKeys)
           /\ \A r \in { KeyRecord(k) : k \in FirstAcceptedKeys }
                      \cup { output_buffer[n] : n \in 1 .. ret } :
                  Cardinality({ n \in 1 .. ret : output_buffer[n] = r })
                  = Cardinality({ k \in FirstAcceptedKeys : KeyRecord(k) = r })
           /\ FarthestFirst(output_buffer)

\* C2 witness: more images pass the filters than processed[] holds, and the
\* scan returned a full buffer.
C2_Witness_Overflow ==
    /\ ScanRan
    /\ Cardinality(AcceptedKeys) > MAX_PROCESSED
    /\ ret = MAX_PROCESSED

\* The records of s at distance v, in the order of s.
AtDistance(s, v) ==
    LET Same(r) == r[4] = v IN SelectSeq(s, Same)

CollectedRecords == [k \in 1 .. Len(collected) |-> OutputRecord(collected[k])]

\* C3: the returned list is a permutation of the records the scan
\* collected, dist_sq never rises from one entry to the next, and records of
\* equal dist_sq stand in the order the scan collected them.
C3_StableFarthestFirst ==
    ScanRan =>
        /\ Len(output_buffer) = Len(collected)
        /\ FarthestFirst(output_buffer)
        /\ \A v \in { CollectedRecords[k][4] : k \in 1 .. Len(collected) }
                   \cup { output_buffer[k][4] : k \in 1 .. Len(output_buffer) } :
               AtDistance(output_buffer, v) = AtDistance(CollectedRecords, v)

\* C3 witness: the sort moved a record, and two different records at the
\* same distance were returned.
C3_Witness_TieAndSwap ==
    /\ ScanRan
    /\ output_buffer # CollectedRecords
    /\ \E a, b \in 1 .. Len(output_buffer) :
           /\ a < b
           /\ output_buffer[a][4] = output_buffer[b][4]
           /\ output_buffer[a] # output_buffer[b]

\* forwardDist * d of a returned record: its dx, dy projected on the heading.
RecordForward(r) == r[2] * frame.dir[1] + r[3] * frame.dir[2]

\* C10: every returned record lies more than 0.5 ahead of the camera, and
\* its flag is 1 exactly when the player is lower than the obstacle and the
\* record is nearer along the heading than the player (its delta wrapped
\* once), else 0.
C10_ForwardAndFlag ==
    ScanRan =>
        \A n \in 1 .. Len(output_buffer) :
            LET r == output_buffer[n]
            IN  /\ 2 * RecordForward(r) > Unit * frame.dir[3]
                /\ r[5] \in {IntToFloat(0), IntToFloat(1)}
                /\ \E i \in 0 .. (obstacle_count - 1) :
                       /\ IntToFloat(obstacles[i].id) = r[1]
                       /\ (r[5] = IntToFloat(1)) <=>
                              (/\ frame.player_height < obstacles[i].height
                               /\ RecordForward(r) < PlayerT(frame))

\* C10 witness: one scan returned a flagged and an unflagged record, and an
\* image in range and in view at the near clip or behind it was left out.
C10_Witness_BothFlags ==
    /\ ScanRan
    /\ \E a, b \in 1 .. Len(output_buffer) :
           output_buffer[a][5] = IntToFloat(1) /\ output_buffer[b][5] = IntToFloat(0)
    /\ \E k \in ImageKeys :
           /\ InRange(KeyImage(k), frame)
           /\ AngleInView(KeyImage(k).dx, KeyImage(k).dy, frame)
           /\ 2 * KeyImage(k).t = Unit * frame.dir[3]

-----------------------------------------------------------------------------
(* Claims about the collision detector, under SpecCollision.               *)

Collided == last = "check_collision" /\ ret = 1

\* C7 as stated: an obstacle of radius 0 never makes check_collision return
\* true, and an obstacle of negative height is skipped for every player
\* height >= 0.
C7_Original_ZeroRadiusNeverCollides ==
    Collided =>
        /\ obstacles[hit].radius # 0
        /\ query.player_height >= 0 => obstacles[hit].height >= 0

\* C7 as amended: an obstacle of radius 0 makes check_collision return true
\* only when the wrapped squared distance is below the player's squared
\* radius, so never for a player of radius 0; and an obstacle of negative
\* height is skipped for every player height >= 0.
C7_ZeroRadiusWithinPlayerRadius ==
    Collided =>
        /\ obstacles[hit].radius = 0 =>
               /\ WrappedDistSq(obstacles[hit], query)
                      < query.player_radius * query.player_radius
               /\ query.player_radius # 0
        /\ query.player_height >= 0 => obstacles[hit].height >= 0

\* C7 witness: an obstacle of radius 0 made the call return true, after an
\* obstacle of negative height standing under the player was passed over.
C7_Witness_ZeroRadiusHit ==
    /\ Collided
    /\ obstacles[hit].radius = 0
    /\ query.player_height >= 0
    /\ \E j \in 0 .. (hit - 1) :
           obstacles[j].height < 0 /\ Overlaps(obstacles[j], query)

\* query moved by (sx, sy).
Shifted(q, sx, sy) == [q EXCEPT !.new_x = q.new_x + sx, !.new_y = q.new_y + sy]

\* C8 as stated: with the proposed position on an obstacle, moving it by a
\* whole map width or height either way leaves the answer unchanged,
\* whatever the registry holds.
C8_Original_FullWrapSameAnswer ==
    (/\ last = "check_collision"
     /\ \E i \in 0 .. (obstacle_count - 1) :
            obstacles[i].x = query.new_x /\ obstacles[i].y = query.new_y)
    => \A s \in { <<query.map_width, 0>>, <<-query.map_width, 0>>,
                  <<0, query.map_height>>, <<0, -query.map_height>> } :
           CollisionResult(Shifted(query, s[1], s[2])) = ret

\* C9: check_collision returns true only if some obstacle higher than the
\* player has its wrapped squared distance below the squared sum of the
\* radii; so it returns false when no obstacle is higher than the player,
\* and the obstacle it returns true for is higher than the player.
C9_FlyoverNeverCollides ==
    last = "check_collision" =>
        /\ ret = 1 =>
               \E i \in 0 .. (obstacle_count - 1) :
                   /\ query.player_height < obstacles[i].height
                   /\ WrappedDistSq(obstacles[i], query)
                          < (obstacles[i].radius + query.player_radius)
                            * (obstacles[i].radius + query.player_radius)
        /\ (\A i \in 0 .. (obstacle_count - 1) :
                obstacles[i].height <= query.player_height) => ret = 0
        /\ ret = 1 => query.player_height < obstacles[hit].height
        /\ ret \in {0, 1}

\* C9 witness: the player stands inside an obstacle exactly as high as the
\* player, and the call returned false.
C9_Witness_OverlapFlownOver ==
    /\ last = "check_collision"
    /\ ret = 0
    /\ \E i \in 0 .. (obstacle_count - 1) :
           /\ obstacles[i].height = query.player_height
           /\ WrappedDistSq(obstacles[i], query)
                  < (obstacles[i].radius + query.player_radius)
                    * (obstacles[i].radius + query.player_radius)

-----------------------------------------------------------------------------
(* Claims about the ground rasterizer, under SpecRender.                   *)

RenderedLast == last \in {"render_ground_quality", "render_ground_performance"}

\* The bytes of row r of the destination buffer.
RowBytes(r) ==
    [k \in 0 .. (scene.ground_w * 4 - 1) |-> ground_pixels[r * scene.ground_w * 4 + k]]

\* The largest computed row above row r.
ComputedAbove(r) ==
    CHOOSE q \in recomputed : q < r /\ \A p \in recomputed : p < r => p <= q

\* C4: after render_ground_performance row 0 has been computed, and every
\* row r > 0 whose index is not a multiple of the step of its band has not
\* been computed and is byte for byte the largest computed row above it,
\* also where that row lies in a band with another step.
C4_SkippedRowCopiesLastComputed ==
    (last = "render_ground_performance" /\ scene.ground_h > 0) =>
        /\ 0 \in recomputed
        /\ \A r \in 1 .. (scene.ground_h - 1) :
               CRem(r, RowStep(r, scene)) # 0 =>
                   /\ r \notin recomputed
                   /\ RowBytes(r) = RowBytes(ComputedAbove(r))

\* C4 witness: a skipped row was copied from a computed row of another band
\* with another step, that row is not row 0 and differs from row 0.
C4_Witness_CopyAcrossBands ==
    /\ last = "render_ground_performance"
    /\ \E r \in 1 .. (scene.ground_h - 1) :
           /\ r \notin recomputed
           /\ ComputedAbove(r) # 0
           /\ RowStep(ComputedAbove(r), scene) # RowStep(r, scene)
           /\ RowBytes(ComputedAbove(r)) # RowBytes(0)
           /\ RowBytes(r) = RowBytes(ComputedAbove(r))

\* C5: after either renderer, whatever the step, the flags and the tilt,
\* no store fell outside the buffer, every byte of the ground_w * ground_h
\* pixels was stored to by the call, the colour bytes are bytes of the
\* texture and every alpha byte is 255.
C5_EveryPixelWrittenOpaque ==
    RenderedLast =>
        /\ ~pixelsOverrun
        /\ written = 0 .. (scene.ground_w * scene.ground_h * 4 - 1)
        /\ DOMAIN ground_pixels = written
        /\ \A p \in 0 .. (scene.ground_w * scene.ground_h - 1) :
               /\ ground_pixels[4 * p + 3] = 255
               /\ \A c \in 0 .. 2 : ground_pixels[4 * p + c] \in 0 .. 254

\* C5 witness: render_ground_performance ran with a base step below 1, or
\* with a step that does not divide the width, filled a block cut at the end
\* of a row and copied rows, from a texture whose alpha is never 255.
C5_Witness_CutBlockAndCopiedRows ==
    /\ last = "render_ground_performance"
    /\ \E r \in recomputed : CRem(scene.ground_w, RowStep(r, scene)) # 0
    /\ recomputed # 0 .. (scene.ground_h - 1)
    /\ \A k \in DOMAIN MapData(scene) : MapData(scene)[k] # 255
    /\ written = DOMAIN ground_pixels

\* The numerator of cur_x and cur_y at column x of row y.
SampleX(y, x) == LeftX(y, scene) + x * StepX(scene)

SampleY(y, x) == LeftY(y, scene) + x * StepY(scene)

\* The whole periods the sampled coordinates are moved by.
Periods == -2 .. 2

\* C6 as stated: the texel column sampled for a coordinate is the one sampled
\* for the coordinate moved by k whole texture widths, for negative k and
\* negative coordinates as well, and lies in [0, map_w); likewise the texel
\* row with map_h.
C6_Original_SamplingToroidal ==
    RenderedLast =>
        \A y \in 0 .. (scene.ground_h - 1), x \in 0 .. (scene.ground_w - 1), k \in Periods :
            /\ TexelIndex(SampleX(y, x) + k * scene.map_w * RowDen(y, scene),
                          RowDen(y, scene), scene.map_w)
                   = TexelIndex(SampleX(y, x), RowDen(y, scene), scene.map_w)
            /\ TexelIndex(SampleY(y, x) + k * scene.map_h * RowDen(y, scene),
                          RowDen(y, scene), scene.map_h)
                   = TexelIndex(SampleY(y, x), RowDen(y, scene), scene.map_h)
            /\ TexelIndex(SampleX(y, x), RowDen(y, scene), scene.map_w)
                   \in 0 .. (scene.map_w - 1)
            /\ TexelIndex(SampleY(y, x), RowDen(y, scene), scene.map_h)
                   \in 0 .. (scene.map_h - 1)

\* The buffer render_ground_quality leaves for the arguments of the scene.
QualityBuffer == QualityRows(CallStart, scene).pix

\* The four bytes of the pixel at row y, column x of buffer pix.
Pixel(pix, y, x) ==
    [c \in 0 .. 3 |-> pix[y * scene.ground_w * 4 + x * 4 + c]]

\* The columns of row y where render_ground_performance samples the texture.
SampledColumns(y) ==
    { x \in 0 .. (scene.ground_w - 1) : CRem(x, RowStep(y, scene)) = 0 }

\* C11: for the same arguments, on every computed row y and at every column
\* x that is a multiple of the row's step, render_ground_performance leaves
\* the pixel render_ground_quality leaves at (y, x), and every pixel of the
\* block starting at x carries it; and when the step of every row is 1 the
\* two buffers are equal.
C11_PerformanceRefinesQuality ==
    last = "render_ground_performance" =>
        /\ \A y \in recomputed : \A x \in SampledColumns(y) :
               /\ Pixel(ground_pixels, y, x) = Pixel(QualityBuffer, y, x)
               /\ \A b \in x .. (BlockEnd(x, RowStep(y, scene), scene) - 1) :
                      Pixel(ground_pixels, y, b) = Pixel(ground_pixels, y, x)
        /\ (\A y \in 0 .. (scene.ground_h - 1) : RowStep(y, scene) = 1)
               => ground_pixels = QualityBuffer

\* C11 witness: a computed row with a step above 1 has a sampled column
\* other than column 0, its pixel is the one of the quality renderer, the
\* pixel at column 0 is another one, and the two buffers differ.
C11_Witness_CoarseRowSampled ==
    /\ last = "render_ground_performance"
    /\ ground_pixels # QualityBuffer
    /\ \E y \in recomputed : \E x \in SampledColumns(y) :
           /\ x > 0
           /\ RowStep(y, scene) > 1
           /\ Pixel(ground_pixels, y, x) = Pixel(QualityBuffer, y, x)
           /\ Pixel(ground_pixels, y, x) # Pixel(ground_pixels, y, 0)

\* C11 witness of the last clause is the state where every step is 1.
C11_Witness_StepOneEqualBuffers ==
    /\ last = "render_ground_performance"
    /\ scene.ground_h > 1
    /\ scene.base_res < 1
    /\ \A y \in 0 .. (scene.ground_h - 1) : RowStep(y, scene) = 1
    /\ ground_pixels = QualityBuffer

=============================================================================
